---- MODULE Spec2Model ----
(***************************************************************************)
(* Model of rust/kernel/spi.rs: the DriverRegistration lifecycle           *)
(* (new, new_pinned, register, Drop), the spi_method! trampolines and the  *)
(* Spi transfer wrappers (write_then_read, write, read), together with the *)
(* calls they make into the host (C) SPI subsystem.  A behaviour follows   *)
(* one DriverRegistration instance from its creation to its drop; steps    *)
(* counts the register() calls made on it.                                 *)
(***************************************************************************)
EXTENDS Integers, Sequences, FiniteSets, TLC

VARIABLES life, reg, flips, host_reg_calls, host_unreg_calls, last, steps

vars == <<life, reg, flips, host_reg_calls, host_unreg_calls, last, steps>>

(* ---------------------------- bounds ----------------------------------- *)
MaxOps == 4
MaxBuf == 2

(* ------------------------- kernel error type --------------------------- *)
EINVAL == -22
ENOMEM == -12
EIO == -5

Error(errno) == [errno |-> errno]
from_kernel_errno(errno) == Error(errno)
to_kernel_errno(e) == e.errno

Ok == <<"Ok">>
Err(e) == <<"Err", e>>

None == <<>>
Some(x) == <<x>>
unwrap_panics(opt) == opt = None
unwrap(opt) == opt[1]

NULL == "null"

(* --------------------------- input domains ----------------------------- *)
Modules == {"THIS_MODULE"}
Names == {"rust_spi_dummy", "other"}
ProbeOpts == {NULL, "probe_fn"}
RemoveOpts == {NULL, "remove_fn"}
ShutdownOpts == {NULL, "shutdown_fn"}
RegStatuses == {0, EINVAL, ENOMEM}
XferStatuses == {0, EINVAL, EIO}
Devices == {"dev_a", "dev_b"}
HandlerResults == {Ok, Err(Error(EINVAL)), Err(Error(ENOMEM))}

(* usize is 64 bits wide and c_uint 32 bits wide; both are kept as        *)
(* little-endian sequences of 16-bit limbs (4 and 2 limbs).                *)
LimbBase == 2^16
usize(k) == <<k % LimbBase, k \div LimbBase, 0, 0>>
c_uint(k) == <<k % LimbBase, k \div LimbBase>>
TwoPow32Plus1 == <<1, 0, 1, 0>>
as_c_uint(n) == <<n[1], n[2]>>

LenInputs == {usize(k) : k \in 0..(MaxBuf + 1)} \cup {TwoPow32Plus1}
TxBufs == {[ptr |-> "tx_buf", len |-> k] : k \in 0..MaxBuf}
RxBufs == {[ptr |-> "rx_buf", len |-> k] : k \in 0..MaxBuf}
EmptyArray == [ptr |-> "empty_array", len |-> 0]

(* The identifier table a driver declares (samples/rust/spi_dummy.rs).     *)
ID_TABLE == "ID_TABLE"

(* --------------------------- bindings ---------------------------------- *)
spi_driver_default ==
    [name |-> NULL, id_table |-> NULL, probe |-> NULL, remove |-> NULL,
     shutdown |-> NULL]

(* ------------------------------ SpiDevice ------------------------------ *)
from_ptr(dev) == [ptr |-> dev]
to_ptr(self) == self.ptr

(* ----------------------- DriverRegistration ---------------------------- *)
new(this_module, name, probe, remove, shutdown) ==
    [this_module |-> this_module,
     name |-> name,
     registered |-> FALSE,
     probe |-> probe,
     remove |-> remove,
     shutdown |-> shutdown,
     spi_driver |-> None]

(* Faulty variants of register(), used to test the properties below.       *)
(* Treats every host status as success.                                    *)
register_mut_ignore_res(this, res) ==
    LET spi_driver == [spi_driver_default EXCEPT
                          !.name = this.name, !.probe = this.probe,
                          !.remove = this.remove, !.shutdown = this.shutdown]
    IN  IF this.registered
        THEN [this |-> this, calls |-> <<>>, ret |-> Err(Error(EINVAL))]
        ELSE [this |-> [this EXCEPT !.spi_driver = Some(spi_driver),
                                    !.registered = TRUE],
              calls |-> <<[owner |-> this.this_module, sdrv |-> spi_driver,
                           addr |-> "register_local", res |-> res]>>,
              ret |-> Ok]

(* Omits the `if this.registered` check.                                   *)
register_mut_no_check(this, res) ==
    LET spi_driver == [spi_driver_default EXCEPT
                          !.name = this.name, !.probe = this.probe,
                          !.remove = this.remove, !.shutdown = this.shutdown]
        stored == [this EXCEPT !.spi_driver = Some(spi_driver)]
        call == [owner |-> this.this_module, sdrv |-> spi_driver,
                 addr |-> "register_local", res |-> res]
    IN  IF res = 0
        THEN [this |-> [stored EXCEPT !.registered = TRUE],
              calls |-> <<call>>, ret |-> Ok]
        ELSE [this |-> stored, calls |-> <<call>>,
              ret |-> Err(from_kernel_errno(res))]

(* Sets the registered flag before the host call and never clears it.      *)
register_mut_flag_early(this, res) ==
    LET spi_driver == [spi_driver_default EXCEPT
                          !.name = this.name, !.probe = this.probe,
                          !.remove = this.remove, !.shutdown = this.shutdown]
    IN  IF this.registered
        THEN [this |-> this, calls |-> <<>>, ret |-> Err(Error(EINVAL))]
        ELSE LET stored == [this EXCEPT !.spi_driver = Some(spi_driver),
                                        !.registered = TRUE]
                 call == [owner |-> this.this_module, sdrv |-> spi_driver,
                          addr |-> "register_local", res |-> res]
             IN  [this |-> stored, calls |-> <<call>>,
                  ret |-> IF res = 0 THEN Ok
                          ELSE Err(from_kernel_errno(res))]

(* Forgets to copy the shutdown slot into the descriptor.                  *)
register_mut_no_shutdown(this, res) ==
    LET spi_driver == [spi_driver_default EXCEPT
                          !.name = this.name, !.probe = this.probe,
                          !.remove = this.remove]
    IN  IF this.registered
        THEN [this |-> this, calls |-> <<>>, ret |-> Err(Error(EINVAL))]
        ELSE LET stored == [this EXCEPT !.spi_driver = Some(spi_driver)]
                 call == [owner |-> this.this_module, sdrv |-> spi_driver,
                          addr |-> "register_local", res |-> res]
             IN  IF res = 0
                 THEN [this |-> [stored EXCEPT !.registered = TRUE],
                       calls |-> <<call>>, ret |-> Ok]
                 ELSE [this |-> stored, calls |-> <<call>>,
                       ret |-> Err(from_kernel_errno(res))]

(* Clears the registered flag when called on a registered instance.       *)
register_mut_clear_on_retry(this, res) ==
    LET spi_driver == [spi_driver_default EXCEPT
                          !.name = this.name, !.probe = this.probe,
                          !.remove = this.remove, !.shutdown = this.shutdown]
    IN  IF this.registered
        THEN [this |-> [this EXCEPT !.registered = FALSE], calls |-> <<>>,
              ret |-> Err(Error(EINVAL))]
        ELSE LET stored == [this EXCEPT !.spi_driver = Some(spi_driver)]
                 call == [owner |-> this.this_module, sdrv |-> spi_driver,
                          addr |-> "register_local", res |-> res]
             IN  IF res = 0
                 THEN [this |-> [stored EXCEPT !.registered = TRUE],
                       calls |-> <<call>>, ret |-> Ok]
                 ELSE [this |-> stored, calls |-> <<call>>,
                       ret |-> Err(from_kernel_errno(res))]

(* Takes a stored descriptor as proof of an earlier registration.          *)
register_mut_consumed(this, res) ==
    LET spi_driver == [spi_driver_default EXCEPT
                          !.name = this.name, !.probe = this.probe,
                          !.remove = this.remove, !.shutdown = this.shutdown]
    IN  IF this.registered \/ this.spi_driver # None
        THEN [this |-> this, calls |-> <<>>, ret |-> Err(Error(EINVAL))]
        ELSE LET stored == [this EXCEPT !.spi_driver = Some(spi_driver)]
                 call == [owner |-> this.this_module, sdrv |-> spi_driver,
                          addr |-> "register_local", res |-> res]
             IN  IF res = 0
                 THEN [this |-> [stored EXCEPT !.registered = TRUE],
                       calls |-> <<call>>, ret |-> Ok]
                 ELSE [this |-> stored, calls |-> <<call>>,
                       ret |-> Err(from_kernel_errno(res))]

(* register(): the outcome for instance `this` when the host registration  *)
(* entry point would answer `res`.  calls is the sequence of calls made to *)
(* __spi_register_driver; the descriptor handed over is the local variable *)
(* of register(), not the copy stored in the instance.                     *)
register(this, res) ==
    LET spi_driver == [spi_driver_default EXCEPT
                          !.name = this.name,
                          !.probe = this.probe,
                          !.remove = this.remove,
                          !.shutdown = this.shutdown]
    IN  IF this.registered
        THEN [this |-> this, calls |-> <<>>, ret |-> Err(Error(EINVAL))]
        ELSE LET stored == [this EXCEPT !.spi_driver = Some(spi_driver)]
                 call == [owner |-> this.this_module, sdrv |-> spi_driver,
                          addr |-> "register_local", res |-> res]
             IN  IF res = 0
                 THEN [this |-> [stored EXCEPT !.registered = TRUE],
                       calls |-> <<call>>, ret |-> Ok]
                 ELSE [this |-> stored, calls |-> <<call>>,
                       ret |-> Err(from_kernel_errno(res))]

(* Drop: unwraps the optional descriptor and unregisters a temporary copy. *)
drop(this) ==
    IF unwrap_panics(this.spi_driver)
    THEN [panicked |-> TRUE, calls |-> <<>>]
    ELSE [panicked |-> FALSE,
          calls |-> <<[sdrv |-> unwrap(this.spi_driver),
                       addr |-> "drop_temporary"]>>]

Init ==
    /\ life = "absent"
    /\ reg = None
    /\ flips = 0
    /\ host_reg_calls = <<>>
    /\ host_unreg_calls = <<>>
    /\ last = [op |-> "init"]
    /\ steps = 0

New ==
    /\ life = "absent"
    /\ \E m \in Modules, n \in Names, p \in ProbeOpts, r \in RemoveOpts,
          s \in ShutdownOpts :
          /\ reg' = Some(new(m, n, p, r, s))
          /\ last' = [op |-> "new", name |-> n, probe |-> p, remove |-> r,
                      shutdown |-> s]
    /\ life' = "alive"
    /\ flips' = 0
    /\ UNCHANGED <<host_reg_calls, host_unreg_calls, steps>>

Register ==
    /\ life = "alive"
    /\ steps < MaxOps
    /\ \E res \in RegStatuses :
          LET out == register(unwrap(reg), res)
          IN  /\ reg' = Some(out.this)
              /\ host_reg_calls' = host_reg_calls \o out.calls
              /\ flips' = IF ~unwrap(reg).registered /\ out.this.registered
                          THEN flips + 1 ELSE flips
              /\ last' = [op |-> "register", pre |-> unwrap(reg),
                          res |-> res, calls |-> out.calls,
                          post |-> out.this, ret |-> out.ret]
    /\ steps' = steps + 1
    /\ UNCHANGED <<life, host_unreg_calls>>

Drop ==
    /\ life = "alive"
    /\ LET out == drop(unwrap(reg))
       IN  /\ life' = IF out.panicked THEN "panicked" ELSE "dropped"
           /\ host_unreg_calls' = host_unreg_calls \o out.calls
           /\ last' = [op |-> "drop", pre |-> unwrap(reg),
                       calls |-> out.calls, panicked |-> out.panicked]
    /\ reg' = None
    /\ UNCHANGED <<flips, host_reg_calls, steps>>

(* new_pinned(): new, Box::try_new, register, and the drop of the value    *)
(* on either early return (`?`).  Box::try_new consumes the value, so an   *)
(* allocation failure drops the unregistered instance.                     *)
New_pinned ==
    /\ life = "absent"
    /\ \E m \in Modules, n \in Names, p \in ProbeOpts, r \in RemoveOpts,
          s \in ShutdownOpts, alloc_ok \in BOOLEAN, res \in RegStatuses :
          LET fresh == new(m, n, p, r, s)
              out == register(fresh, res)
              failed == IF alloc_ok THEN out.this ELSE fresh
              d == drop(failed)
              rcalls == IF alloc_ok THEN out.calls ELSE <<>>
              args == [name |-> n, probe |-> p, remove |-> r,
                       shutdown |-> s, alloc_ok |-> alloc_ok, res |-> res]
          IN  IF alloc_ok /\ out.ret = Ok
              THEN /\ reg' = Some(out.this)
                   /\ life' = "alive"
                   /\ flips' = 1
                   /\ host_reg_calls' = host_reg_calls \o rcalls
                   /\ host_unreg_calls' = host_unreg_calls
                   /\ last' = [op |-> "new_pinned", args |-> args,
                               reg_calls |-> rcalls, unreg_calls |-> <<>>,
                               panicked |-> FALSE, ret |-> Ok]
              ELSE /\ reg' = None
                   /\ life' = IF d.panicked THEN "panicked" ELSE "dropped"
                   /\ flips' = 0
                   /\ host_reg_calls' = host_reg_calls \o rcalls
                   /\ host_unreg_calls' = host_unreg_calls \o d.calls
                   /\ last' = [op |-> "new_pinned", args |-> args,
                               reg_calls |-> rcalls, unreg_calls |-> d.calls,
                               panicked |-> d.panicked,
                               ret |-> IF alloc_ok THEN out.ret
                                       ELSE Err(Error(ENOMEM))]
    /\ steps' = steps

(* ------------------------- spi_method! trampolines --------------------- *)
(* Faulty variant: yields 0 whatever the handler returned.                 *)
spi_method_int_mut_zero(dev, handler_result) ==
    [handler_args |-> <<from_ptr(dev)>>, ret |-> 0]

(* First arm: handler returning KernelResult (probe, remove).              *)
spi_method_int(dev, handler_result) ==
    [handler_args |-> <<from_ptr(dev)>>,
     ret |-> IF handler_result = Ok THEN 0
             ELSE to_kernel_errno(handler_result[2])]

(* Second arm: handler returning nothing (shutdown).                       *)
spi_method_void(dev, handler_outcome) ==
    [handler_args |-> <<from_ptr(dev)>>, ret |-> "void"]

Registered_slot(slot) ==
    /\ life = "alive"
    /\ unwrap(reg).registered
    /\ unwrap(reg).spi_driver # None
    /\ unwrap(unwrap(reg).spi_driver)[slot] # NULL

(* ------------------------- the host's view ----------------------------- *)
(* The host keeps the address it was given by __spi_register_driver.  That *)
(* address is the local variable of register() (spi.rs:87, 100), whose     *)
(* stack frame is gone once register() has returned; only a descriptor     *)
(* stored in a live instance would still be there between operations.      *)
Live(addr) == addr = "instance_field" /\ life = "alive"

(* What the host can find in a slot of the descriptor it holds: the value  *)
(* written there if the memory is live, anything otherwise.                *)
host_load(call, slot) ==
    IF Live(call.addr) THEN {call.sdrv[slot]}
    ELSE {call.sdrv[slot], NULL, "wild"}

AcceptedRegistrations ==
    {i \in DOMAIN host_reg_calls : host_reg_calls[i].res = 0}

(* The host dispatches a lifecycle callback of an accepted registration    *)
(* through the slot it loads: a null slot means no call, one of the        *)
(* trampolines is entered with the device pointer, anything else is a      *)
(* jump to an arbitrary address.                                           *)
HostDispatch(slot, fn, op, dev, h) ==
    \E i \in AcceptedRegistrations :
       \E f \in host_load(host_reg_calls[i], slot) :
          IF f = fn
          THEN LET out == IF slot = "shutdown" THEN spi_method_void(dev, h)
                          ELSE spi_method_int(dev, h)
               IN  last' = [op |-> op, dev |-> dev, handler |-> h,
                            slot |-> host_reg_calls[i].sdrv[slot],
                            loaded |-> f,
                            handler_args |-> out.handler_args,
                            ret |-> out.ret]
          ELSE last' = [op |-> IF f = NULL THEN op \o "_none"
                               ELSE op \o "_wild",
                        dev |-> dev, handler |-> h,
                        slot |-> host_reg_calls[i].sdrv[slot],
                        loaded |-> f,
                        handler_args |-> <<>>, ret |-> "none"]

ProbeCallback ==
    /\ life = "alive"
    /\ \E dev \in Devices, h \in HandlerResults :
          HostDispatch("probe", "probe_fn", "probe", dev, h)
    /\ UNCHANGED <<life, reg, flips, host_reg_calls, host_unreg_calls, steps>>

RemoveCallback ==
    /\ life = "alive"
    /\ \E dev \in Devices, h \in HandlerResults :
          HostDispatch("remove", "remove_fn", "remove", dev, h)
    /\ UNCHANGED <<life, reg, flips, host_reg_calls, host_unreg_calls, steps>>

ShutdownCallback ==
    /\ life = "alive"
    /\ \E dev \in Devices, h \in HandlerResults :
          HostDispatch("shutdown", "shutdown_fn", "shutdown", dev, h)
    /\ UNCHANGED <<life, reg, flips, host_reg_calls, host_unreg_calls, steps>>

(* --------------------------------- Spi --------------------------------- *)
(* Faulty variants of write_then_read.  Discards the host's status.       *)
write_then_read_mut_discard(dev, tx_buf, n_tx, rx_buf, n_rx, res) ==
    [calls |-> <<[dev |-> to_ptr(dev),
                  tx |-> tx_buf.ptr, n_tx |-> as_c_uint(n_tx),
                  rx |-> rx_buf.ptr, n_rx |-> as_c_uint(n_rx)]>>,
     ret |-> Ok]

(* Returns early, without a host call, when both lengths are zero.         *)
write_then_read_mut_skip_empty(dev, tx_buf, n_tx, rx_buf, n_rx, res) ==
    IF n_tx = usize(0) /\ n_rx = usize(0)
    THEN [calls |-> <<>>, ret |-> Ok]
    ELSE [calls |-> <<[dev |-> to_ptr(dev),
                       tx |-> tx_buf.ptr, n_tx |-> as_c_uint(n_tx),
                       rx |-> rx_buf.ptr, n_rx |-> as_c_uint(n_rx)]>>,
          ret |-> IF res = 0 THEN Ok ELSE Err(from_kernel_errno(res))]

(* Repeats the host call once when the first one failed.                   *)
write_then_read_mut_retry(dev, tx_buf, n_tx, rx_buf, n_rx, res) ==
    LET call == [dev |-> to_ptr(dev),
                 tx |-> tx_buf.ptr, n_tx |-> as_c_uint(n_tx),
                 rx |-> rx_buf.ptr, n_rx |-> as_c_uint(n_rx)]
    IN  IF res = 0 THEN [calls |-> <<call>>, ret |-> Ok]
        ELSE [calls |-> <<call, call>>, ret |-> Err(from_kernel_errno(res))]

write_then_read(dev, tx_buf, n_tx, rx_buf, n_rx, res) ==
    [calls |-> <<[dev |-> to_ptr(dev),
                  tx |-> tx_buf.ptr, n_tx |-> as_c_uint(n_tx),
                  rx |-> rx_buf.ptr, n_rx |-> as_c_uint(n_rx)]>>,
     ret |-> IF res = 0 THEN Ok ELSE Err(from_kernel_errno(res))]

(* Faulty variant of write: passes the buffer on the receive side.         *)
write_mut_swapped(dev, tx_buf, n_tx, res) ==
    write_then_read(dev, EmptyArray, usize(0), tx_buf, n_tx, res)

write(dev, tx_buf, n_tx, res) ==
    write_then_read(dev, tx_buf, n_tx, EmptyArray, usize(0), res)

read(dev, rx_buf, n_rx, res) ==
    write_then_read(dev, EmptyArray, usize(0), rx_buf, n_rx, res)

Write_then_read ==
    /\ life # "panicked"
    /\ \E d \in Devices, tx \in TxBufs, n_tx \in LenInputs, rx \in RxBufs,
          n_rx \in LenInputs, res \in XferStatuses :
          LET out == write_then_read(from_ptr(d), tx, n_tx, rx, n_rx, res)
          IN  last' = [op |-> "write_then_read", dev |-> d, tx_buf |-> tx,
                       n_tx |-> n_tx, rx_buf |-> rx, n_rx |-> n_rx,
                       res |-> res, calls |-> out.calls, ret |-> out.ret]
    /\ UNCHANGED <<life, reg, flips, host_reg_calls, host_unreg_calls, steps>>

Write ==
    /\ life # "panicked"
    /\ \E d \in Devices, tx \in TxBufs, n_tx \in LenInputs,
          res \in XferStatuses :
          LET out == write(from_ptr(d), tx, n_tx, res)
          IN  last' = [op |-> "write", dev |-> d, tx_buf |-> tx,
                       n_tx |-> n_tx, rx_buf |-> EmptyArray,
                       n_rx |-> usize(0),
                       res |-> res, calls |-> out.calls, ret |-> out.ret]
    /\ UNCHANGED <<life, reg, flips, host_reg_calls, host_unreg_calls, steps>>

Read ==
    /\ life # "panicked"
    /\ \E d \in Devices, rx \in RxBufs, n_rx \in LenInputs,
          res \in XferStatuses :
          LET out == read(from_ptr(d), rx, n_rx, res)
          IN  last' = [op |-> "read", dev |-> d, tx_buf |-> EmptyArray,
                       n_tx |-> usize(0), rx_buf |-> rx, n_rx |-> n_rx,
                       res |-> res, calls |-> out.calls, ret |-> out.ret]
    /\ UNCHANGED <<life, reg, flips, host_reg_calls, host_unreg_calls, steps>>

Next ==
    \/ New
    \/ New_pinned
    \/ Register
    \/ Drop
    \/ ProbeCallback
    \/ RemoveCallback
    \/ ShutdownCallback

Spec == Init /\ [][Next]_vars

(* The Spi functions are associated functions of a unit struct: they touch *)
(* no registration state, so they are explored on their own.               *)
NextSpi ==
    \/ Write_then_read
    \/ Write
    \/ Read

SpecSpi == Init /\ [][NextSpi]_vars

(* ------------------------------ helpers -------------------------------- *)
IsTransfer == last.op \in {"write_then_read", "write", "read"}

(* C1: a register() call on an unregistered instance returns Ok exactly    *)
(* when __spi_register_driver returned 0; on success the registered flag   *)
(* goes from false to true, and it does so at most once per instance.      *)
C1_RegisterSucceedsIffHostZero ==
    /\ (last.op = "register" /\ ~last.pre.registered) =>
          /\ Len(last.calls) = 1
          /\ last.calls[1].res = last.res
          /\ (last.ret = Ok <=> last.res = 0)
          /\ (last.ret = Ok => last.post.registered)
    /\ flips <= 1

C1_Witness ==
    /\ last.op = "register"
    /\ last.pre.spi_driver = None
    /\ ~last.pre.registered
    /\ last.res = 0
    /\ last.ret = Ok
    /\ last.post.registered
    /\ flips = 1

(* C2: dropping a Registered instance calls driver_unregister exactly      *)
(* once, dropping an Unregistered one never calls it; the number of        *)
(* unregistration calls never exceeds the number of accepted               *)
(* registrations.                                                          *)
C2_UnregisterOnlyWhenRegistered ==
    /\ (last.op = "drop" /\ last.pre.registered) => Len(last.calls) = 1
    /\ (last.op = "drop" /\ ~last.pre.registered) => Len(last.calls) = 0
    /\ Len(host_unreg_calls) <= Cardinality(AcceptedRegistrations)

(* C3: register() on a Registered instance fails with EINVAL (already      *)
(* registered), leaves every field of the instance as it was and makes no  *)
(* host registration call.                                                 *)
C3_SecondRegisterRejected ==
    (last.op = "register" /\ last.pre.registered) =>
        /\ last.ret = Err(Error(EINVAL))
        /\ last.post = last.pre
        /\ last.calls = <<>>
        /\ reg = Some(last.pre)

C3_Witness ==
    /\ last.op = "register"
    /\ last.pre.registered
    /\ last.ret = Err(Error(EINVAL))
    /\ Len(host_reg_calls) = 1

(* C4: when __spi_register_driver returns a non-zero status, register()    *)
(* returns Err carrying that status and the registered flag stays false.   *)
C4_HostRejectionKeepsUnregistered ==
    (last.op = "register" /\ ~last.pre.registered /\ last.res # 0) =>
        /\ last.ret = Err(Error(last.res))
        /\ to_kernel_errno(last.ret[2]) = last.res
        /\ ~last.post.registered
        /\ last.post.registered = last.pre.registered
        /\ ~unwrap(reg).registered

C4_Witness ==
    /\ last.op = "register"
    /\ ~last.pre.registered
    /\ last.res = ENOMEM
    /\ last.ret = Err(Error(ENOMEM))
    /\ ~unwrap(reg).registered

(* C5: drop never panics, in any state reachable through new, new_pinned   *)
(* and register.                                                           *)
C5_DropNeverPanics ==
    /\ life # "panicked"
    /\ (last.op \in {"drop", "new_pinned"} => ~last.panicked)

(* C6: write_then_read returns Ok exactly when spi_write_then_read         *)
(* returned 0, and otherwise Err carrying the host's status.               *)
C6_TransferResultFollowsHost ==
    last.op = "write_then_read" =>
        /\ (last.ret = Ok <=> last.res = 0)
        /\ (last.res # 0 =>
               /\ last.ret = Err(Error(last.res))
               /\ to_kernel_errno(last.ret[2]) = last.res)

C6_Witness ==
    /\ last.op = "write_then_read"
    /\ last.res = EIO
    /\ last.ret = Err(Error(EIO))

(* C7: write(dev, tx, n) makes the host call and returns the result of     *)
(* write_then_read(dev, tx, n, empty, 0); read(dev, rx, n) those of        *)
(* write_then_read(dev, empty, 0, rx, n).                                  *)
C7_WriteReadAreSpecialisations ==
    /\ last.op = "write" =>
          LET t == write_then_read(from_ptr(last.dev), last.tx_buf, last.n_tx,
                                   EmptyArray, usize(0), last.res)
          IN  /\ last.calls = t.calls
              /\ last.ret = t.ret
              /\ Len(last.calls) = 1
              /\ last.calls[1].dev = last.dev
              /\ last.calls[1].tx = last.tx_buf.ptr
              /\ last.calls[1].n_tx = as_c_uint(last.n_tx)
              /\ last.calls[1].n_rx = c_uint(0)
    /\ last.op = "read" =>
          LET t == write_then_read(from_ptr(last.dev), EmptyArray, usize(0),
                                   last.rx_buf, last.n_rx, last.res)
          IN  /\ last.calls = t.calls
              /\ last.ret = t.ret
              /\ Len(last.calls) = 1
              /\ last.calls[1].dev = last.dev
              /\ last.calls[1].rx = last.rx_buf.ptr
              /\ last.calls[1].n_rx = as_c_uint(last.n_rx)
              /\ last.calls[1].n_tx = c_uint(0)

C7_Witness ==
    /\ last.op = "write"
    /\ last.tx_buf.len = 2
    /\ last.n_tx = usize(2)
    /\ last.res = 0
    /\ last.calls[1].n_tx = c_uint(2)
    /\ last.calls[1].n_rx = c_uint(0)
    /\ last.ret = Ok

(* C8: a transfer with both buffers empty makes exactly one host call,     *)
(* with both lengths 0, and returns Ok when the host returns 0.            *)
C8_EmptyTransferIsOneCall ==
    (/\ last.op = "write_then_read"
     /\ last.tx_buf.len = 0 /\ last.n_tx = usize(0)
     /\ last.rx_buf.len = 0 /\ last.n_rx = usize(0)) =>
        /\ Len(last.calls) = 1
        /\ last.calls[1].n_tx = c_uint(0)
        /\ last.calls[1].n_rx = c_uint(0)
        /\ (last.res = 0 => last.ret = Ok)

C8_Witness ==
    /\ last.op = "write_then_read"
    /\ last.tx_buf.len = 0 /\ last.n_tx = usize(0)
    /\ last.rx_buf.len = 0 /\ last.n_rx = usize(0)
    /\ last.res = 0
    /\ Len(last.calls) = 1
    /\ last.ret = Ok

(* C9: in the descriptor submitted to the host, each of the probe, remove  *)
(* and shutdown slots is non-null exactly when that handler was supplied   *)
(* at creation.                                                            *)
SlotsMatch(sdrv, probe, remove, shutdown) ==
    /\ (sdrv.probe # NULL <=> probe # NULL)
    /\ (sdrv.remove # NULL <=> remove # NULL)
    /\ (sdrv.shutdown # NULL <=> shutdown # NULL)

C9_SlotsFollowSuppliedHandlers ==
    /\ (last.op = "new_pinned" /\ last.reg_calls # <<>>) =>
          SlotsMatch(last.reg_calls[1].sdrv, last.args.probe,
                     last.args.remove, last.args.shutdown)
    /\ (last.op = "register" /\ last.calls # <<>>) =>
          /\ SlotsMatch(last.calls[1].sdrv, last.pre.probe,
                        last.pre.remove, last.pre.shutdown)
          /\ SlotsMatch(unwrap(last.post.spi_driver), last.pre.probe,
                        last.pre.remove, last.pre.shutdown)
    /\ (last.op = "new" /\ life = "alive") =>
          SlotsMatch(unwrap(reg), last.probe, last.remove, last.shutdown)

C9_Witness ==
    /\ last.op = "new_pinned"
    /\ last.ret = Ok
    /\ last.args.probe # NULL
    /\ last.args.remove = NULL
    /\ last.args.shutdown = NULL
    /\ last.reg_calls[1].sdrv.probe # NULL
    /\ last.reg_calls[1].sdrv.remove = NULL
    /\ last.reg_calls[1].sdrv.shutdown = NULL

(* C10: a probe/remove trampoline returns 0 exactly when the handler       *)
(* returned Ok and the error's errno when it returned Err; the shutdown    *)
(* trampoline returns nothing.                                             *)
C10_TrampolineReturnConvention ==
    /\ last.op \in {"probe", "remove"} =>
          /\ (last.ret = 0 <=> last.handler = Ok)
          /\ (last.handler # Ok => last.ret = last.handler[2].errno)
    /\ last.op = "shutdown" => last.ret = "void"

C10_Witness ==
    /\ last.op = "remove"
    /\ last.handler = Err(Error(ENOMEM))
    /\ last.ret = ENOMEM

(* C11: once a registration with a probe handler was accepted, a host      *)
(* invocation of the probe callback with a device pointer enters the       *)
(* user's handler exactly once, with a handle wrapping that pointer, and   *)
(* returns 0 to the host when the handler succeeds.                        *)
C11_ProbeReachesHandler ==
    (last.op \in {"probe", "probe_none", "probe_wild"} /\ last.slot # NULL) =>
        /\ last.op = "probe"
        /\ Len(last.handler_args) = 1
        /\ to_ptr(last.handler_args[1]) = last.dev
        /\ to_ptr(from_ptr(last.dev)) = last.dev
        /\ (last.handler = Ok => last.ret = 0)

(* C12: while the instance is Registered the descriptor the host refers to *)
(* is the one stored in the instance and is live, and the descriptor given *)
(* to driver_unregister is the one that was given to                       *)
(* __spi_register_driver.                                                  *)
C12_HostHoldsStoredDescriptor ==
    /\ (life = "alive" /\ unwrap(reg).registered) =>
          \A i \in AcceptedRegistrations :
             /\ host_reg_calls[i].addr = "instance_field"
             /\ Live(host_reg_calls[i].addr)
    /\ \A j \in DOMAIN host_unreg_calls :
          \E i \in AcceptedRegistrations :
             host_reg_calls[i].addr = host_unreg_calls[j].addr

(* C13: new_pinned returns Ok with a Registered instance exactly when the  *)
(* allocation succeeds and the host returns 0; when the host rejects, it   *)
(* returns the host's code, no instance survives and the host has no       *)
(* registration and received no unregistration call.                       *)
C13_NewPinnedOutcome ==
    last.op = "new_pinned" =>
        /\ (last.ret = Ok <=> (last.args.alloc_ok /\ last.args.res = 0))
        /\ (last.ret = Ok => life = "alive" /\ unwrap(reg).registered)
        /\ (last.args.alloc_ok /\ last.args.res # 0) =>
              /\ last.ret = Err(Error(last.args.res))
              /\ reg = None
              /\ AcceptedRegistrations = {}
              /\ last.unreg_calls = <<>>
              /\ host_unreg_calls = <<>>

(* C14: while the instance is alive the registered flag never goes from    *)
(* true to false, and it is true exactly when the most recent host         *)
(* registration call returned 0.                                           *)
FlagFollowsLastHostCall ==
    life = "alive" =>
        (unwrap(reg).registered <=>
            (/\ host_reg_calls # <<>>
             /\ host_reg_calls[Len(host_reg_calls)].res = 0))

FlagStaysSet ==
    (life = "alive" /\ unwrap(reg).registered /\ life' = "alive")
        => unwrap(reg').registered

C14_LifecycleTransitions ==
    []FlagFollowsLastHostCall /\ [][FlagStaysSet]_vars

C14_Witness ==
    /\ life = "alive"
    /\ unwrap(reg).registered
    /\ Len(host_reg_calls) = 2
    /\ host_reg_calls[1].res # 0
    /\ host_reg_calls[2].res = 0
    /\ last.op = "register"
    /\ last.pre.registered

(* C15: after a register() that the host rejected, a later register() on   *)
(* the same instance is not refused as already registered: it submits the  *)
(* descriptor again and succeeds if the host returns 0.                    *)
C15_RejectedRegisterCanBeRetried ==
    (/\ last.op = "register"
     /\ ~last.pre.registered
     /\ last.pre.spi_driver # None) =>
        /\ Len(last.calls) = 1
        /\ last.calls[1].sdrv = unwrap(last.pre.spi_driver)
        /\ (last.res = 0 => last.ret = Ok /\ last.post.registered)
        /\ (last.res # 0 => last.ret = Err(Error(last.res)))

C15_Witness ==
    /\ last.op = "register"
    /\ ~last.pre.registered
    /\ last.pre.spi_driver # None
    /\ Len(host_reg_calls) = 2
    /\ host_reg_calls[1].res = EINVAL
    /\ last.res = 0
    /\ last.ret = Ok
    /\ unwrap(reg).registered

(* C16: every write_then_read, write or read makes exactly one host        *)
(* transfer call, whatever status the host returns.                        *)
C16_OneHostCallPerTransfer ==
    IsTransfer => Len(last.calls) = 1

C16_Witness ==
    /\ last.op = "read"
    /\ last.res = EIO
    /\ Len(last.calls) = 1
    /\ last.ret = Err(Error(EIO))

(* C17: the descriptor submitted by register() carries the name and the    *)
(* identifier-table reference of the driver, besides the callback slots.   *)
C17_DescriptorCarriesNameAndIdTable ==
    (last.op = "register" /\ last.calls # <<>>) =>
        /\ last.calls[1].sdrv.name = last.pre.name
        /\ last.calls[1].sdrv.id_table = ID_TABLE

(* C18: the transmit and receive lengths handed to the host never exceed   *)
(* the lengths of the caller's transmit and receive buffers.               *)
c_uint_leq(m, k) == m[2] = 0 /\ m[1] <= k

C18_LengthsWithinBuffers ==
    IsTransfer =>
        \A i \in DOMAIN last.calls :
           /\ c_uint_leq(last.calls[i].n_tx, last.tx_buf.len)
           /\ c_uint_leq(last.calls[i].n_rx, last.rx_buf.len)

(* C19: the lengths the host receives are numerically equal to the         *)
(* caller's n_tx and n_rx (no wrap modulo 2^32).                           *)
same_number(n, m) == n[1] = m[1] /\ n[2] = m[2] /\ n[3] = 0 /\ n[4] = 0

C19_LengthsNotTruncated ==
    IsTransfer =>
        \A i \in DOMAIN last.calls :
           /\ same_number(last.n_tx, last.calls[i].n_tx)
           /\ same_number(last.n_rx, last.calls[i].n_rx)

====
